---- MODULE Spec2Model ----
(***************************************************************************)
(* The packing pipeline of src/main.rs: Initial -> Uprighted ->            *)
(* Sorted by Height -> Flowed -> Packed Upwards, driven by the Space key   *)
(* handler of main().                                                      *)
(*                                                                         *)
(* Arithmetic.  The program computes in f32; the model computes in exact   *)
(* integers.  One model length unit is 1/Unit of a program unit, so that   *)
(* patches smaller than the program's 1.0 probe margin exist in the model. *)
(* A patch stores its center; to keep extent/2 exact the model's `center`  *)
(* field holds TWICE the program's center (in model units), and left(),    *)
(* right(), top(), bottom() halve it back.                                 *)
(***************************************************************************)
EXTENDS Integers, Sequences, FiniteSets, TLC

VARIABLES state, previous_state, cols, rows

vars == <<state, previous_state, cols, rows>>

-----------------------------------------------------------------------------
(* Bounds of the model *)

\* model length units per 1.0 of the program's coordinates
Unit == 2
\* grids tried: cols x rows with cols <= MaxCols and cols * rows <= MaxPatches
MaxCols == 2
MaxPatches == 4
\* paddings tried: 0..MaxPadding model units
MaxPadding == 1

\* canvas cell sizes tried (model units): the canvas is cols*cell by rows*cell
CellSizes == {2, 5}

(* Program constants *)

\* the probe stops 1.0 above the patch (patch.top() - 1.)
ProbeMargin == 1
\* the rotation marker of an uprighted patch, in degrees (FRAC_PI_2)
FRAC_PI_2 == 90

Max(a, b) == IF a >= b THEN a ELSE b

-----------------------------------------------------------------------------
(* Patch *)

width(p) == p.extent.x
height(p) == p.extent.y
left(p) == (p.center.x - p.extent.x) \div 2
right(p) == (p.center.x + p.extent.x) \div 2
top(p) == (p.center.y - p.extent.y) \div 2
bottom(p) == (p.center.y + p.extent.y) \div 2

\* variant: a square patch is rotated too (>= for >)
uprighted_on_ties(p) ==
    IF width(p) >= height(p)
    THEN [id |-> p.id,
          center |-> p.center,
          extent |-> [x |-> p.extent.y, y |-> p.extent.x],
          rotation |-> FRAC_PI_2]
    ELSE p

uprighted(p) ==
    IF width(p) > height(p)
    THEN [id |-> p.id,
          center |-> p.center,
          extent |-> [x |-> p.extent.y, y |-> p.extent.x],
          rotation |-> FRAC_PI_2]
    ELSE p

with_left_and_top(p, l, t) ==
    [id |-> p.id,
     center |-> [x |-> 2 * l + p.extent.x, y |-> 2 * t + p.extent.y],
     extent |-> p.extent,
     rotation |-> p.rotation]

\* variant: boxes that only touch do not overlap (< and > for <= and >=)
overlaps_strictly(self, other) ==
    LET x_overlap == /\ left(self) < left(other) + width(other)
                     /\ left(self) + width(self) > left(other)
        y_overlap == /\ top(self) < top(other) + height(other)
                     /\ top(self) + height(self) > top(other)
    IN x_overlap /\ y_overlap

overlaps(self, other) ==
    LET x_overlap == /\ left(self) <= left(other) + width(other)
                     /\ left(self) + width(self) >= left(other)
        y_overlap == /\ top(self) <= top(other) + height(other)
                     /\ top(self) + height(self) >= top(other)
    IN x_overlap /\ y_overlap

-----------------------------------------------------------------------------
(* InitialState::new.  sizes[i] is the <<width, height>> that the two      *)
(* gen_range calls return for the i-th cell of the row-major scan.         *)

\* the values gen_range(cell * 0.5, cell * 1.1) can return, on the model's grid
SizeRange(cell) == {v \in 0..(2 * cell) : 2 * v >= cell /\ 10 * v <= 11 * cell}

InitialPatch(config, ncols, nrows, i, size) ==
    LET row == (i - 1) \div ncols
        col == (i - 1) % ncols
        cell_width == config.width \div ncols
        cell_height == config.height \div nrows
    IN [id |-> i - 1,
        center |-> [x |-> 2 * ((config.width * col) \div ncols) + cell_width,
                    y |-> 2 * ((config.height * row) \div nrows) + cell_height],
        extent |-> [x |-> size[1], y |-> size[2]],
        rotation |-> 0]

InitialState(config, ncols, nrows, sizes) ==
    [name |-> "Initial",
     patches |-> [i \in 1..Len(sizes) |->
                     InitialPatch(config, ncols, nrows, i, sizes[i])],
     config |-> config]

-----------------------------------------------------------------------------
(* UprightedState::from *)

UprightedState(s) ==
    [name |-> "Uprighted",
     patches |-> [i \in 1..Len(s.patches) |-> uprighted(s.patches[i])],
     config |-> s.config]

-----------------------------------------------------------------------------
(* SortedByHeightState::from *)

\* variant: the insertion overwrites the element it should shift
RECURSIVE InsertOverwriting(_, _)
InsertOverwriting(sorted, p) ==
    IF sorted = <<>> THEN <<p>>
    ELSE IF height(Head(sorted)) >= height(p)
         THEN <<Head(sorted)>> \o InsertOverwriting(Tail(sorted), p)
         ELSE <<p>> \o Tail(sorted)

\* variant: an unstable sort, equally tall patches change places (> for >=)
RECURSIVE InsertBeforeEqual(_, _)
InsertBeforeEqual(sorted, p) ==
    IF sorted = <<>> THEN <<p>>
    ELSE IF height(Head(sorted)) > height(p)
         THEN <<Head(sorted)>> \o InsertBeforeEqual(Tail(sorted), p)
         ELSE <<p>> \o sorted

\* Vec::sort_by is a stable sort; the comparator orders by height, descending.
\* Insert p behind every element that is at least as tall.
RECURSIVE InsertByHeight(_, _)
InsertByHeight(sorted, p) ==
    IF sorted = <<>> THEN <<p>>
    ELSE IF height(Head(sorted)) >= height(p)
         THEN <<Head(sorted)>> \o InsertByHeight(Tail(sorted), p)
         ELSE <<p>> \o sorted

RECURSIVE sort_by_height(_)
sort_by_height(ps) ==
    IF ps = <<>> THEN <<>>
    ELSE InsertByHeight(sort_by_height(SubSeq(ps, 1, Len(ps) - 1)), ps[Len(ps)])

RECURSIVE ArrangeByHeight(_, _, _)
ArrangeByHeight(sorted, padding, k) ==
    IF k = 0 THEN <<>>
    ELSE LET arranged == ArrangeByHeight(sorted, padding, k - 1)
         IN Append(arranged,
                   IF arranged # <<>>
                   THEN with_left_and_top(sorted[k],
                                          right(arranged[Len(arranged)]) + padding,
                                          padding)
                   ELSE with_left_and_top(sorted[k], padding, padding))

SortedByHeightState(s) ==
    LET sorted == sort_by_height(s.patches)
    IN [name |-> "Sorted by Height",
        patches |-> ArrangeByHeight(sorted, s.config.padding, Len(sorted)),
        config |-> s.config]

-----------------------------------------------------------------------------
(* FlowedState::from.  FlowCursor(ps, config, k) is the loop's state after *)
(* its first k iterations.                                                 *)

\* variant: the test forgets the patch's width
EvenRowIsFullIgnoringWidth(current_x, patch, config) ==
    current_x > config.width

\* on an even row: the patch does not fit right of the cursor
EvenRowIsFull(current_x, patch, config) ==
    current_x + width(patch) > config.width

\* variant: the row height leaves the padding out
RowHeightWithoutPadding(row_height, patch, padding) ==
    Max(row_height, height(patch))

\* row_height = row_height.max(patch.height() + padding)
RowHeightWith(row_height, patch, padding) ==
    Max(row_height, height(patch) + padding)

FlowStep(c, patch, config) ==
    LET padding == config.padding
        wrapped ==
            IF c.row % 2 = 0
            THEN IF EvenRowIsFull(c.current_x, patch, config)
                 THEN [current_x |-> config.width - padding - width(patch),
                       current_y |-> c.current_y + c.row_height,
                       row_height |-> 0,
                       row |-> c.row + 1]
                 ELSE [current_x |-> c.current_x,
                       current_y |-> c.current_y,
                       row_height |-> c.row_height,
                       row |-> c.row]
            ELSE IF c.current_x - (width(patch) + padding) < padding
                 THEN [current_x |-> padding,
                       current_y |-> c.current_y + c.row_height,
                       row_height |-> 0,
                       row |-> c.row + 1]
                 ELSE [current_x |-> c.current_x - (width(patch) + padding),
                       current_y |-> c.current_y,
                       row_height |-> c.row_height,
                       row |-> c.row]
    IN [current_x |-> IF wrapped.row % 2 = 0
                      THEN wrapped.current_x + width(patch) + padding
                      ELSE wrapped.current_x,
        current_y |-> wrapped.current_y,
        row_height |-> RowHeightWith(wrapped.row_height, patch, padding),
        row |-> wrapped.row,
        result |-> Append(c.result,
                          with_left_and_top(patch, wrapped.current_x, wrapped.current_y))]

RECURSIVE FlowCursor(_, _, _)
FlowCursor(ps, config, k) ==
    IF k = 0
    THEN [current_x |-> config.padding,
          current_y |-> config.padding,
          row_height |-> 0,
          row |-> 0,
          result |-> <<>>]
    ELSE FlowStep(FlowCursor(ps, config, k - 1), ps[k], config)

FlowedState(s) ==
    [name |-> "Flowed",
     patches |-> FlowCursor(s.patches, s.config, Len(s.patches)).result,
     config |-> s.config]

-----------------------------------------------------------------------------
(* PackedUpwardsState::from *)

find_intersections(test, among) ==
    SelectSeq(among, LAMBDA p : overlaps(test, p))

RECURSIVE MaxBottom(_, _)
MaxBottom(bottom0, candidates) ==
    IF candidates = <<>> THEN bottom0
    ELSE MaxBottom(Max(bottom0, bottom(Head(candidates))), Tail(candidates))

PackStep(result, patch, config) ==
    LET test_height == top(patch) - ProbeMargin * Unit
        test == [id |-> -1,
                 center |-> [x |-> patch.center.x, y |-> test_height],
                 extent |-> [x |-> width(patch), y |-> test_height],
                 rotation |-> 0]
        bottom_ == MaxBottom(0, find_intersections(test, result))
    IN Append(result, with_left_and_top(patch, left(patch), bottom_ + config.padding))

RECURSIVE PackResult(_, _, _)
PackResult(ps, config, k) ==
    IF k = 0 THEN <<>>
    ELSE PackStep(PackResult(ps, config, k - 1), ps[k], config)

PackedUpwardsState(s) ==
    [name |-> "Packed Upwards",
     patches |-> PackResult(s.patches, s.config, Len(s.patches)),
     config |-> s.config]

-----------------------------------------------------------------------------
(* main: construction, and the Space key handler.  previous_state is an    *)
(* Option: <<>> is None, <<s>> is Some(s).                                 *)

\* InitialState::new(config, cols, rows), the gen_range results drawn from
\* widths x heights; `for row in 0..rows`, `for col in 0..cols` run no
\* iteration when rows or cols is not positive
NewPipeline(c, r, config, widths, heights) ==
    LET n == IF c > 0 /\ r > 0 THEN c * r ELSE 0
    IN \E sizes \in [1..n -> widths \X heights] :
        /\ cols = c
        /\ rows = r
        /\ state = InitialState(config, c, r, sizes)
        /\ previous_state = <<>>

Grids == {g \in (1..MaxCols) \X (1..MaxPatches) : g[1] * g[2] <= MaxPatches}

\* the documented input domain: cols, rows >= 1, a positive canvas, padding >= 0
Init ==
    \E g \in Grids, cell \in CellSizes, p \in 0..MaxPadding :
        NewPipeline(g[1], g[2],
                    [width |-> g[1] * cell, height |-> g[2] * cell, padding |-> p],
                    SizeRange(cell), SizeRange(cell))

\* state.next() returned Some(new_state)
Step(new_state) ==
    /\ previous_state' = <<state>>
    /\ state' = new_state
    /\ UNCHANGED <<cols, rows>>

SpaceInitial ==
    /\ state.name = "Initial"
    /\ Step(UprightedState(state))

SpaceUprighted ==
    /\ state.name = "Uprighted"
    /\ Step(SortedByHeightState(state))

SpaceSortedByHeight ==
    /\ state.name = "Sorted by Height"
    /\ Step(FlowedState(state))

SpaceFlowed ==
    /\ state.name = "Flowed"
    /\ Step(PackedUpwardsState(state))

\* variant: the terminal stage starts the pipeline over
SpacePackedUpwardsRestarting ==
    /\ state.name = "Packed Upwards"
    /\ Step(UprightedState(state))

\* PackedUpwardsState::next returns None: the handler changes nothing
SpacePackedUpwards ==
    /\ state.name = "Packed Upwards"
    /\ UNCHANGED vars

Next ==
    \/ SpaceInitial
    \/ SpaceUprighted
    \/ SpaceSortedByHeight
    \/ SpaceFlowed
    \/ SpacePackedUpwards

Spec == Init /\ [][Next]_vars

\* InitialState::new checks none of its arguments: the same construction on
\* configurations outside the documented domain (cols or rows not positive,
\* an empty canvas, negative padding)
InitUnchecked ==
    \E c \in (-1)..MaxCols, r \in (-1)..MaxPatches, cell \in {0} \cup CellSizes,
       p \in (-1)..MaxPadding :
        /\ c * r <= MaxPatches
        /\ NewPipeline(c, r,
                       [width |-> Max(c, 1) * cell, height |-> Max(r, 1) * cell,
                        padding |-> p],
                       SizeRange(cell), SizeRange(cell))

SpecUnchecked == InitUnchecked /\ [][Next]_vars

\* The pipeline on a 2 x 1 grid with the random sizes pinned by the caller to
\* 20 or 40 program units, whatever the cell size
InitPinned ==
    \E w \in {100 * Unit, 200 * Unit}, p \in {0, 4 * Unit} :
        NewPipeline(2, 1,
                    [width |-> w, height |-> 100 * Unit, padding |-> p],
                    {20 * Unit, 40 * Unit}, {20 * Unit, 40 * Unit})

SpecPinned == InitPinned /\ [][Next]_vars

-----------------------------------------------------------------------------
(* Vocabulary of the properties *)

Stage == state.name
Patches == state.patches
Padding == state.config.padding
CanvasWidth == state.config.width
\* the list the current stage was computed from (defined when previous_state is Some)
Before == previous_state[1].patches
N == Len(Patches)

\* the two boxes share interior points
BoxesOverlap(p, q) ==
    /\ left(p) < right(q) /\ left(q) < right(p)
    /\ top(p) < bottom(q) /\ top(q) < bottom(p)

\* C1: after Uprighting, Height-sort, Row-flow and Upward compaction no two
\* distinct patches of the Packed Upwards list have overlapping boxes
\* (boxes that only touch do not overlap).
C1_NoOverlap ==
    Stage = "Packed Upwards" =>
        \A i, j \in 1..N : i < j => ~BoxesOverlap(Patches[i], Patches[j])

\* C2: every patch's top edge in the Packed Upwards list is less than or equal
\* to its top edge in the Flowed list it was computed from.
C2_MonotonicCompaction ==
    Stage = "Packed Upwards" =>
        \A i \in 1..N : top(Patches[i]) <= top(Before[i])

\* Where the two properties do hold.  The probe of Upward compaction stops
\* 1.0 above the patch: when every height + padding is at least that margin,
\* no two boxes overlap.
NoOverlapAboveProbeMargin ==
    (\A i \in 1..N : height(Patches[i]) + Padding >= ProbeMargin * Unit) => C1_NoOverlap

\* Patches of one row are padding apart: with padding > 0 none of them is an
\* obstruction of its neighbour, and no patch moves down.
MonotonicWithPadding == Padding > 0 => C2_MonotonicCompaction

-----------------------------------------------------------------------------
\* C3: in every stage the list holds exactly cols*rows patches and its ids
\* are exactly 0..cols*rows-1, none twice; the same for the retained previous
\* stage.  Height-sort reorders the list without renumbering it.
\* Every id keeps, from one stage to the next, the extent its patch was
\* created with.
HasAllIds(ps) ==
    /\ Len(ps) = cols * rows
    /\ {ps[i].id : i \in 1..Len(ps)} = 0..(cols * rows - 1)

\* the extent a patch was created with
OriginalExtent(p) ==
    IF p.rotation = FRAC_PI_2 THEN [x |-> p.extent.y, y |-> p.extent.x] ELSE p.extent

C3_CardinalityAndIdentity ==
    /\ HasAllIds(Patches)
    /\ previous_state # <<>> =>
        /\ HasAllIds(Before)
        /\ \A i \in 1..N : \E j \in 1..Len(Before) :
            /\ Patches[i].id = Before[j].id
            /\ OriginalExtent(Patches[i]) = OriginalExtent(Before[j])

\* C3 case: Height-sort has moved a patch away from the position of its id
C3_Witness ==
    /\ Stage = "Sorted by Height"
    /\ N >= 3
    /\ \E i \in 1..N : Patches[i].id # i - 1

-----------------------------------------------------------------------------
\* C4: every step of the Space handler moves the stage to its successor in
\* Initial, Uprighted, Sorted by Height, Flowed, Packed Upwards, retaining the
\* stage left as previous_state; in Packed Upwards the step changes neither
\* the stage nor its patch list.
Successor(name) ==
    CASE name = "Initial" -> "Uprighted"
      [] name = "Uprighted" -> "Sorted by Height"
      [] name = "Sorted by Height" -> "Flowed"
      [] name = "Flowed" -> "Packed Upwards"
      [] OTHER -> "Packed Upwards"

C4_StepInOrder ==
    IF Stage = "Packed Upwards"
    THEN state' = state /\ previous_state' = previous_state
    ELSE state'.name = Successor(Stage) /\ previous_state' = <<state>>

C4_PipelineOrdering == [][C4_StepInOrder]_vars

\* C4 case: the terminal stage has been reached through Flowed, and the
\* handler can run again
C4_Witness ==
    /\ Stage = "Packed Upwards"
    /\ previous_state[1].name = "Flowed"
    /\ N >= 2

-----------------------------------------------------------------------------
\* C5: if every patch given to Row-flow has width <= W - 2*padding, every
\* patch of the Flowed list has left + width <= W.
C5_Precondition ==
    \A i \in 1..Len(Before) : width(Before[i]) <= CanvasWidth - 2 * Padding

C5_RowFlowWidthBound ==
    (Stage = "Flowed" /\ C5_Precondition) =>
        \A i \in 1..N : left(Patches[i]) + width(Patches[i]) <= CanvasWidth

\* the loop states of Row-flow on ps: element k + 1 is the state after k patches
RECURSIVE FlowTrace(_, _, _)
FlowTrace(ps, config, k) ==
    IF k = 0 THEN <<FlowCursor(ps, config, 0)>>
    ELSE LET trace == FlowTrace(ps, config, k - 1)
         IN Append(trace, FlowStep(trace[k], ps[k], config))

\* FlowRows[k + 1] is the row the loop placed its k-th patch on (its `row`
\* counter), FlowRows[1] the row it starts on
FlowRows ==
    LET trace == FlowTrace(Before, state.config, Len(Before))
    IN [k \in 1..Len(trace) |-> trace[k].row]

\* C5 case: the precondition holds, padding is positive and the flow wrapped
\* from an even row and from an odd row
C5_Witness ==
    /\ Stage = "Flowed"
    /\ C5_Precondition
    /\ Padding > 0
    /\ FlowRows[N + 1] >= 2

-----------------------------------------------------------------------------
\* C6: in the Uprighted list every patch has height >= width; a patch that
\* was wider than tall has width and height swapped and rotation 90, any
\* other patch (ties included) is unchanged; ids, order and centers are
\* kept; uprighting the Uprighted list again changes nothing.
C6_Uprighting ==
    Stage = "Uprighted" =>
        /\ N = Len(Before)
        /\ \A i \in 1..N :
            LET p == Before[i]
                q == Patches[i]
            IN /\ height(q) >= width(q)
               /\ q.id = p.id
               /\ q.center = p.center
               /\ width(p) > height(p) =>
                    /\ width(q) = height(p)
                    /\ height(q) = width(p)
                    /\ q.rotation = 90
               /\ width(p) <= height(p) => q = p
        /\ UprightedState(state).patches = Patches

\* C6 case: one patch was rotated, one is square, one was already upright
C6_Witness ==
    /\ Stage = "Uprighted"
    /\ \E i \in 1..N : width(Before[i]) > height(Before[i])
    /\ \E i \in 1..N : width(Before[i]) = height(Before[i])
    /\ \E i \in 1..N : width(Before[i]) < height(Before[i])

-----------------------------------------------------------------------------
\* C7: a configuration with cols <= 0, rows <= 0, W <= 0, H <= 0 or negative
\* padding is rejected, giving no patch list; no stage holds a patch of
\* width <= 0 or height <= 0.
Degenerate ==
    \/ cols <= 0
    \/ rows <= 0
    \/ state.config.width <= 0
    \/ state.config.height <= 0
    \/ state.config.padding < 0

C7_DegenerateRejected ==
    /\ Degenerate => (Stage = "ConfigurationError" /\ Patches = <<>>)
    /\ \A i \in 1..N : width(Patches[i]) > 0 /\ height(Patches[i]) > 0

-----------------------------------------------------------------------------
\* C8: the pinned scenario: patch 0 of size 40 x 20, patch 1 of size 20 x 40,
\* padding 4, canvas width 200 (program units).
U(v) == v * Unit

PinnedScenario ==
    /\ cols = 2 /\ rows = 1
    /\ Padding = U(4)
    /\ CanvasWidth = U(200)
    /\ \A i \in 1..N :
        /\ Patches[i].id = 0 => OriginalExtent(Patches[i]) = [x |-> U(40), y |-> U(20)]
        /\ Patches[i].id = 1 => OriginalExtent(Patches[i]) = [x |-> U(20), y |-> U(40)]

\* as claimed: after Height-sort patch 1 is first at left 4 and patch 0
\* second at left 48
C8_ScenarioAsClaimed ==
    PinnedScenario =>
        /\ Stage = "Uprighted" => \A i \in 1..N : height(Patches[i]) >= width(Patches[i])
        /\ Stage = "Sorted by Height" =>
            /\ Patches[1].id = 1 /\ left(Patches[1]) = U(4)
            /\ Patches[2].id = 0 /\ left(Patches[2]) = U(48)
        /\ Stage = "Flowed" =>
            \A i \in 1..N : /\ left(Patches[i]) = left(Before[i])
                            /\ top(Patches[i]) = top(Before[i])
        /\ Stage = "Packed Upwards" => \A i \in 1..N : top(Patches[i]) = U(4)

\* C8, amended: after Uprighting both patches are 20 x 40; the stable sort
\* keeps patch 0 first, at left 4, and places patch 1 second at left
\* 4 + 20 + 4 = 28; Row-flow leaves both where they are, on one row at top 4;
\* after Upward compaction both have top 4.
C8_ScenarioAmended ==
    PinnedScenario =>
        /\ Stage = "Uprighted" => \A i \in 1..N : height(Patches[i]) >= width(Patches[i])
        /\ Stage = "Sorted by Height" =>
            /\ Patches[1].id = 0 /\ left(Patches[1]) = U(4)
            /\ Patches[2].id = 1 /\ left(Patches[2]) = U(28)
        /\ Stage = "Flowed" =>
            \A i \in 1..N : /\ left(Patches[i]) = left(Before[i])
                            /\ top(Patches[i]) = top(Before[i])
                            /\ top(Patches[i]) = U(4)
        /\ Stage = "Packed Upwards" => \A i \in 1..N : top(Patches[i]) = U(4)

\* C8 case: the pinned scenario has run to the terminal stage
C8_Witness ==
    /\ PinnedScenario
    /\ Stage = "Packed Upwards"
    /\ N = 2
    /\ Patches[1].rotation = FRAC_PI_2

-----------------------------------------------------------------------------
\* C9: Upward compaction emits the i-th Flowed patch with its id, left edge
\* and extent unchanged and its top at restingY + padding, where restingY is
\* the largest of 0 and the bottoms of the patches emitted before it whose
\* box meets the probe region: the patch's horizontal extent, from y = 0 down
\* to 1.0 above the patch's Flowed top.  The first k patches emitted are the
\* compaction of the first k Flowed patches alone.
SetMax(S) == CHOOSE m \in S : \A v \in S : v <= m

\* the closed intervals [lo1, hi1] and [lo2, hi2] have a common point
IntervalsMeet(lo1, hi1, lo2, hi2) ==
    /\ lo1 <= hi1 /\ lo2 <= hi2
    /\ lo1 <= hi2 /\ lo2 <= hi1

MeetsProbe(p, q) ==
    /\ IntervalsMeet(left(p), right(p), left(q), right(q))
    /\ IntervalsMeet(0, top(p) - U(1), top(q), bottom(q))

RestingY(i) ==
    SetMax({0} \cup {bottom(Patches[j]) : j \in {k \in 1..(i - 1) : MeetsProbe(Before[i], Patches[k])}})

C9_RestingRule ==
    Stage = "Packed Upwards" =>
        /\ N = Len(Before)
        /\ \A i \in 1..N :
            /\ Patches[i].id = Before[i].id
            /\ Patches[i].extent = Before[i].extent
            /\ left(Patches[i]) = left(Before[i])
            /\ top(Patches[i]) = RestingY(i) + Padding
        /\ \A k \in 0..N :
            SubSeq(Patches, 1, k) = PackResult(SubSeq(Before, 1, k), state.config, k)

\* C9 case: a patch rests on a patch emitted before it and moved up doing so,
\* and a later patch follows it in the list
C9_Witness ==
    /\ Stage = "Packed Upwards"
    /\ \E i \in 1..(N - 1) :
        /\ RestingY(i) > 0
        /\ top(Patches[i]) < top(Before[i])

-----------------------------------------------------------------------------
\* C10: Row-flow places the first patch at top = padding, places a patch that
\* does not wrap at the top of the patch before it, and at every wrap advances
\* the cursor's y by (the largest height on the row being left) + padding.
RowMaxHeight(row, r) ==
    SetMax({0} \cup {height(Patches[j]) : j \in {k \in 1..N : row[k + 1] = r}})

\* the cursor's y before the k-th patch is placed
CursorY(k) == IF k = 1 THEN Padding ELSE top(Patches[k - 1])

\* as claimed: every wrap, the one the first patch may force included
C10_RowTransitionAsClaimed ==
    Stage = "Flowed" =>
        LET row == FlowRows
        IN \A k \in 1..N :
            IF row[k + 1] # row[k]
            THEN top(Patches[k]) = CursorY(k) + RowMaxHeight(row, row[k]) + Padding
            ELSE top(Patches[k]) = CursorY(k)

\* C10, amended: the first patch placed has top = padding, also when it wraps
\* (it then leaves an empty row and y does not advance); every later wrap
\* leaves a row holding a patch and advances y by exactly (the largest height
\* on that row) + padding; patches between two wraps share their top.
C10_RowTransitionAmended ==
    Stage = "Flowed" =>
        LET row == FlowRows
        IN /\ N >= 1 => top(Patches[1]) = Padding
           /\ \A k \in 2..N :
               /\ row[k + 1] \in {row[k], row[k] + 1}
               /\ IF row[k + 1] # row[k]
                  THEN top(Patches[k]) =
                           top(Patches[k - 1]) + RowMaxHeight(row, row[k]) + Padding
                  ELSE top(Patches[k]) = top(Patches[k - 1])

\* C10 case: with positive padding, a wrap left a row of two patches of
\* different heights
C10_Witness ==
    /\ Stage = "Flowed"
    /\ Padding > 0
    /\ LET row == FlowRows
       IN \E k \in 3..N :
            /\ row[k + 1] # row[k]
            /\ row[k] = row[k - 1]
            /\ height(Patches[k - 1]) # height(Patches[k - 2])

====
